---- MODULE Spec2Model ----
(***************************************************************************)
(* Model of the AQI / AOD smoothing pipeline and its file cache            *)
(* (backend/fetch_aqi.py, backend/fetch_aod.py, backend/predict_aqi.py).   *)
(*                                                                         *)
(* Numbers.  Input coordinates are whole degrees.  Output coordinates and  *)
(* means are exact rationals [num, den] in lowest terms.  AQI values are   *)
(* integers; AOD values are integers in thousandths (the source rounds     *)
(* every AOD value to 3 decimals).  Distances are whole kilometres.        *)
(* All modelled GeoPoints lie on the parallel 25N, the first row of the    *)
(* lattice, where the haversine formula is tabulated (KmOnParallel).       *)
(***************************************************************************)
EXTENDS Integers, Sequences, FiniteSets, TLC

VARIABLES
    dataset,    \* "aqi" | "aod" | "none": which smoother the input is for
    points,     \* the observation sequence handed to the smoother
    radius,     \* radius_km of smooth_aqi_points
    passes,     \* how many smoothing passes have run over `points`
    clusters,   \* the `cluster` lists of the last smooth_aqi_points pass (indices)
    out,        \* the value returned by the last pass
    prev,       \* the value returned by the pass before it
    now,        \* wall clock, in hours
    files,      \* cache files: key -> [exists, mtime, content]
    last        \* the last step: which operation ran and what it returned

vars == <<dataset, points, radius, passes, clusters, out, prev, now, files, last>>

smoothVars == <<dataset, points, radius, passes, clusters, out, prev>>
cacheVars == <<now, files, last>>

-----------------------------------------------------------------------------
(* Bounds of the model *)

MaxLen == 3         \* inputs of every length 0..MaxLen over the full observation set
MaxLong == 6        \* inputs longer than K, up to MaxLong, over two observations
MaxCells == 2       \* lattice coordinates visited, in the loops' iteration order
MaxRepeatLen == 1   \* a pass is repeated over inputs of at most this length
MaxClock == 3       \* hours the clock runs

(* Program constants *)

K == 5                  \* neighbours per cell: sorted(...)[:5]
TTL_HOURS == 2          \* age < 2
DEFAULT_RADIUS_KM == 150
LAT_START == 25
LAT_STOP == 50
LON_START == -125
LON_STOP == -65
GRID_STEP == 2
AOD_LAT_STOP == 49
AOD_LON_STOP == -66
AOD_SPACING == 2

-----------------------------------------------------------------------------
(* Arithmetic helpers *)

Abs(x) == IF x < 0 THEN -x ELSE x

RECURSIVE GCD(_, _)
GCD(a, b) == IF b = 0 THEN a ELSE GCD(b, a % b)

LCM(a, b) == (a \div GCD(a, b)) * b

RECURSIVE SumSeq(_)
SumSeq(s) == IF s = <<>> THEN 0 ELSE Head(s) + SumSeq(Tail(s))

RECURSIVE LCMSeq(_)
LCMSeq(s) == IF s = <<>> THEN 1 ELSE LCM(Head(s), LCMSeq(Tail(s)))

RangeOf(s) == {s[i] : i \in DOMAIN s}

Min(S) == CHOOSE x \in S : \A y \in S : x <= y
Max(S) == CHOOSE x \in S : \A y \in S : x >= y

\* the rational n/d (d > 0) in lowest terms
Frac(n, d) ==
    LET g == GCD(Abs(n), d)
    IN  [num |-> n \div g, den |-> d \div g]

\* sum(xs) / len(xs)
Mean(xs) == Frac(SumSeq(xs), Len(xs))

\* Python 3 round(n/d) for d > 0: nearest integer, ties to the even one
PyRound(n, d) ==
    LET q == n \div d
        r == n % d
    IN  IF 2 * r < d THEN q
        ELSE IF 2 * r > d THEN q + 1
        ELSE IF q % 2 = 0 THEN q ELSE q + 1

\* round() of a float computed as the quotient n/d of two float sums: where n/d
\* is exactly halfway between two integers the float quotient falls on either
\* side of the tie, `up` telling which; everywhere else it rounds as n/d does
FloatRound(n, d, up) ==
    LET q == n \div d
        r == n % d
    IN  IF 2 * r < d THEN q
        ELSE IF 2 * r > d THEN q + 1
        ELSE IF up THEN q + 1 ELSE q

\* Python range(start, stop, step), step > 0
RECURSIVE PyRange(_, _, _)
PyRange(start, stop, step) ==
    IF start >= stop THEN <<>> ELSE <<start>> \o PyRange(start + step, stop, step)

Take(s, n) == SubSeq(s, 1, IF Len(s) < n THEN Len(s) ELSE n)

\* ascending sequence of a finite set of integers
RECURSIVE Ascending(_)
Ascending(S) ==
    IF S = {} THEN <<>> ELSE LET m == Min(S) IN <<m>> \o Ascending(S \ {m})

RECURSIVE SeqsOfLen(_, _)
SeqsOfLen(S, n) ==
    IF n = 0 THEN {<<>>}
    ELSE {Append(s, x) : s \in SeqsOfLen(S, n - 1), x \in S}

SeqsUpTo(S, n) == UNION {SeqsOfLen(S, k) : k \in 0..n}

-----------------------------------------------------------------------------
(* DistanceMetric *)

\* haversine(25, lon, 25, lon + d) in whole km, d = 0..6 degrees
KmOnParallel == <<0, 101, 202, 302, 403, 504, 605>>

\* every modelled point has lat1 = lat2 = 25, so the formula depends on the
\* longitude difference alone
haversine(lat1, lon1, lat2, lon2) == KmOnParallel[Abs(lon2 - lon1) + 1]

-----------------------------------------------------------------------------
(* Observations (the upstream adapters' records) *)

ObsLons == {-125, -124, -123}
AqiVals == {50, 53, 54}

\* AirNow's Category.Name for an AQI value
CategoryName(aqi) == IF aqi <= 50 THEN "Good" ELSE "Moderate"

\* a record appended by fetch_aqi.fetch_station
Station(lon, aqi) ==
    [city |-> "Unknown", lat |-> LAT_START, lon |-> lon, aqi |-> aqi,
     category |-> CategoryName(aqi), time |-> "2025-10-04"]

\* a record appended by fetch_aod_granules
Granule(lon, aod) == [lat |-> LAT_START, lon |-> lon, aod |-> aod]

AqiObs == {Station(lon, a) : lon \in ObsLons, a \in AqiVals}
AodObs == {Granule(-125, 10), Granule(-124, 151), Granule(-123, 10)}

LongAqiObs == {Station(-125, 50), Station(-123, 54)}
LongAodObs == {Granule(-125, 10), Granule(-123, 151)}

LongLens == (K + 1)..MaxLong

AqiInputs == SeqsUpTo(AqiObs, MaxLen) \cup UNION {SeqsOfLen(LongAqiObs, n) : n \in LongLens}
AodInputs == SeqsUpTo(AodObs, MaxLen) \cup UNION {SeqsOfLen(LongAodObs, n) : n \in LongLens}

Radii == {100, DEFAULT_RADIUS_KM, 300}

-----------------------------------------------------------------------------
(* ClusterAggregator: step 1 of smooth_aqi_points *)

\* the j appended to the cluster of head i (line 116)
NearOf(pts, radius_km, i) ==
    {j \in 1..Len(pts) :
        j # i /\ haversine(pts[i].lat, pts[i].lon, pts[j].lat, pts[j].lon) < radius_km}

\* the loop with `used.add(j)` dedented out of the `if`: every j # i is marked
RECURSIVE ClusterLoopMarkAll(_, _, _, _, _)
ClusterLoopMarkAll(pts, radius_km, i, used, acc) ==
    IF i > Len(pts) THEN acc
    ELSE IF i \in used THEN ClusterLoopMarkAll(pts, radius_km, i + 1, used, acc)
    ELSE ClusterLoopMarkAll(pts, radius_km, i + 1,
                            used \cup ((1..Len(pts)) \ {i}),
                            Append(acc, <<i>> \o Ascending(NearOf(pts, radius_km, i))))

\* the loop over i: `used` is the set of claimed indices, `acc` the clusters
\* built so far, each the list of its members' indices, head first
RECURSIVE ClusterLoop(_, _, _, _, _)
ClusterLoop(pts, radius_km, i, used, acc) ==
    IF i > Len(pts) THEN acc
    ELSE IF i \in used THEN ClusterLoop(pts, radius_km, i + 1, used, acc)
    ELSE LET near == NearOf(pts, radius_km, i)
         IN  ClusterLoop(pts, radius_km, i + 1, used \cup near,
                         Append(acc, <<i>> \o Ascending(near)))

ClustersMarkAll(pts, radius_km) == ClusterLoopMarkAll(pts, radius_km, 1, {}, <<>>)

Clusters(pts, radius_km) == ClusterLoop(pts, radius_km, 1, {}, <<>>)

Field(pts, cluster, f) == [m \in 1..Len(cluster) |-> pts[cluster[m]][f]]

\* the representative of a cluster that takes the head's reading as it is
RepresentativeHead(pts, cluster) ==
    [lat |-> Frac(pts[cluster[1]].lat, 1),
     lon |-> Frac(pts[cluster[1]].lon, 1),
     aqi |-> pts[cluster[1]].aqi,
     category |-> pts[cluster[1]].category]

\* the dict appended to `smoothed` (lines 120-126)
Representative(pts, cluster) ==
    [lat |-> Mean(Field(pts, cluster, "lat")),
     lon |-> Mean(Field(pts, cluster, "lon")),
     aqi |-> PyRound(SumSeq(Field(pts, cluster, "aqi")), Len(cluster)),
     category |-> IF Len(cluster) > 1 THEN "Interpolated"
                  ELSE pts[cluster[1]].category]

Smoothed(pts, radius_km) ==
    LET cs == Clusters(pts, radius_km)
    IN  [c \in 1..Len(cs) |-> Representative(pts, cs[c])]

-----------------------------------------------------------------------------
(* GridInterpolator: step 2 of smooth_aqi_points, and smooth_aod_points *)

\* the (lat, lon) pairs of `for lat in lat_range: for lon in lon_range`, in
\* iteration order
Nested(latr, lonr) ==
    [c \in 1..(Len(latr) * Len(lonr)) |->
        <<latr[((c - 1) \div Len(lonr)) + 1], lonr[((c - 1) % Len(lonr)) + 1]>>]

AqiLattice ==
    Take(Nested(PyRange(LAT_START, LAT_STOP, GRID_STEP),
                PyRange(LON_START, LON_STOP, GRID_STEP)), MaxCells)

\* np.arange(25, 49, spacing), np.arange(-125, -66, spacing)
AodLattice ==
    Take(Nested(PyRange(LAT_START, AOD_LAT_STOP, AOD_SPACING),
                PyRange(LON_START, AOD_LON_STOP, AOD_SPACING)), MaxCells)

DistTo(pts, lat, lon, i) == haversine(lat, lon, pts[i].lat, pts[i].lon)

\* index i put into a list sorted by key, behind every index of an equal key
RECURSIVE InsertByKey(_, _, _)
InsertByKey(sorted, i, key) ==
    IF sorted = <<>> THEN <<i>>
    ELSE IF key[Head(sorted)] <= key[i]
         THEN <<Head(sorted)>> \o InsertByKey(Tail(sorted), i, key)
         ELSE <<i>> \o sorted

\* the indices 1..n sorted by key; Python's sort is stable, so indices of
\* equal keys keep their input order
RECURSIVE StableSort(_, _)
StableSort(n, key) ==
    IF n = 0 THEN <<>> ELSE InsertByKey(StableSort(n - 1, key), n, key)

\* sorted(points, key=distance to (lat, lon))[:5], as indices into pts
Nearest(pts, lat, lon) ==
    LET key == [i \in 1..Len(pts) |-> DistTo(pts, lat, lon, i)]
    IN  Take(StableSort(Len(pts), key), K)

\* sum(v * w) / len(weights): the weights are not normalised
WeightedMeanByCount(vals, dists) ==
    LET D == [m \in 1..Len(dists) |-> dists[m] + 1]
        L == LCMSeq(D)
    IN  <<SumSeq([m \in 1..Len(vals) |-> vals[m] * (L \div D[m])]), L * Len(vals)>>

\* sum(v * w) / sum(w) with w = 1 / (distance + 1), as the fraction <<num, den>>;
\* every weight is scaled by L, the least common multiple of the (distance + 1)
WeightedMean(vals, dists) ==
    LET D == [m \in 1..Len(dists) |-> dists[m] + 1]
        L == LCMSeq(D)
        w == [m \in 1..Len(dists) |-> L \div D[m]]
    IN  <<SumSeq([m \in 1..Len(vals) |-> vals[m] * w[m]]), SumSeq(w)>>

\* `weights` and `avg` (lines 137-138) over the neighbours `nearest`
CellAvg(pts, nearest, lat, lon, f) ==
    WeightedMean([m \in 1..Len(nearest) |-> pts[nearest[m]][f]],
                 [m \in 1..Len(nearest) |-> DistTo(pts, lat, lon, nearest[m])])

\* the loop over the lattice up to `avg` (lines 133-138): for every coordinate
\* that has a neighbour, the coordinate, its neighbours and avg as <<num, den>>
RECURSIVE FillLoop(_, _, _)
FillLoop(pts, cells, acc) ==
    IF cells = <<>> THEN acc
    ELSE LET lat == Head(cells)[1]
             lon == Head(cells)[2]
             nearest == Nearest(pts, lat, lon)
         IN  FillLoop(pts, Tail(cells),
                      IF nearest # <<>>
                      THEN Append(acc, [lat |-> lat, lon |-> lon, nearest |-> nearest,
                                        avg |-> CellAvg(pts, nearest, lat, lon, "aqi")])
                      ELSE acc)

AqiAverages(pts) == FillLoop(pts, AqiLattice, <<>>)

\* avg is exactly halfway between two integers
IsTie(avg) == 2 * (avg[1] % avg[2]) = avg[2]

\* per emitted cell, the side its float rounding takes: a choice only at a tie
TieSides(avgs) ==
    {t \in [1..Len(avgs) -> BOOLEAN] : \A c \in 1..Len(avgs) : t[c] => IsTie(avgs[c].avg)}

\* a cell placed at the nearest station instead of the lattice coordinate
AqiCellAtStation(pts, cell, up) ==
    [lat |-> Frac(pts[cell.nearest[1]].lat, 1),
     lon |-> Frac(pts[cell.nearest[1]].lon, 1),
     aqi |-> FloatRound(cell.avg[1], cell.avg[2], up), category |-> "Interpolated"]

\* the dict appended to `filled` (lines 139-144): lat + 0.5, lon + 0.5
AqiCell(pts, cell, up) ==
    [lat |-> Frac(2 * cell.lat + 1, 2), lon |-> Frac(2 * cell.lon + 1, 2),
     aqi |-> FloatRound(cell.avg[1], cell.avg[2], up), category |-> "Interpolated"]

\* `filled`; ties[c] is the side the c-th emitted cell's rounding takes
Filled(pts, ties) ==
    LET avgs == AqiAverages(pts)
    IN  [c \in 1..Len(avgs) |-> AqiCell(pts, avgs[c], ties[c])]

\* the function without its `if not points` guard, and a cell of value 0 where
\* there is no neighbour
smooth_aqi_points_unguarded(pts, radius_km, ties) ==
    IF pts = <<>>
    THEN [c \in 1..Len(AqiLattice) |->
            [lat |-> Frac(2 * AqiLattice[c][1] + 1, 2),
             lon |-> Frac(2 * AqiLattice[c][2] + 1, 2),
             aqi |-> 0, category |-> "Interpolated"]]
    ELSE Smoothed(pts, radius_km) \o Filled(pts, ties)

smooth_aqi_points(pts, radius_km, ties) ==
    IF pts = <<>> THEN <<>>
    ELSE Smoothed(pts, radius_km) \o Filled(pts, ties)

\* random.uniform(-0.3, 0.3), in tenths of a degree: the outcomes modelled
Jitter == {-3, 3}

\* the loop over the lattice up to `avg` (lines 89-96): for every coordinate
\* that has a neighbour, the coordinate and avg as the fraction <<num, den>>
RECURSIVE AodLoop(_, _, _)
AodLoop(pts, cells, acc) ==
    IF cells = <<>> THEN acc
    ELSE LET lat == Head(cells)[1]
             lon == Head(cells)[2]
             nearby == Nearest(pts, lat, lon)
         IN  AodLoop(pts, Tail(cells),
                     IF nearby = <<>>
                     THEN acc
                     ELSE Append(acc, [lat |-> lat, lon |-> lon,
                                       avg |-> CellAvg(pts, nearby, lat, lon, "aod")]))

AodAverages(pts) ==
    IF pts = <<>> THEN <<>>
    ELSE AodLoop(pts, AodLattice, <<>>)

\* per emitted cell: the two draws (lat, lon) and the side its rounding takes
JitterDraws(avgs) ==
    {d \in [1..Len(avgs) -> Jitter \X Jitter \X BOOLEAN] :
        \A c \in 1..Len(avgs) : d[c][3] => IsTie(avgs[c].avg)}

\* the dicts appended to `smoothed` (lines 97-101); draws[c] holds the draws of
\* the c-th emitted cell
AodEmit(avgs, draws) ==
    [c \in 1..Len(avgs) |->
        [lat |-> Frac(10 * avgs[c].lat + draws[c][1], 10),
         lon |-> Frac(10 * avgs[c].lon + draws[c][2], 10),
         aod |-> FloatRound(avgs[c].avg[1], avgs[c].avg[2], draws[c][3])]]

smooth_aod_points(pts, draws) == AodEmit(AodAverages(pts), draws)

-----------------------------------------------------------------------------
(* The smoothers applied to bounded inputs *)

IdleCache ==
    /\ now = 0
    /\ files = [k \in {"aqi", "aod"} |->
                  [exists |-> FALSE, mtime |-> 0, content |-> [ok |-> TRUE, doc |-> <<>>]]]
    /\ last = [op |-> "none", hit |-> FALSE, computes |-> 0, failed |-> FALSE,
               raised |-> FALSE, ret |-> <<>>]

InitSmooth ==
    /\ \/ dataset = "aqi" /\ points \in AqiInputs /\ radius \in Radii
       \/ dataset = "aod" /\ points \in AodInputs /\ radius = DEFAULT_RADIUS_KM
    /\ passes = 0
    /\ clusters = <<>>
    /\ out = <<>>
    /\ prev = <<>>
    /\ IdleCache

MayRun == passes = 0 \/ (passes = 1 /\ Len(points) <= MaxRepeatLen)

SmoothAqi ==
    /\ dataset = "aqi"
    /\ MayRun
    /\ clusters' = Clusters(points, radius)
    /\ \E ties \in TieSides(AqiAverages(points)) :
            out' = smooth_aqi_points(points, radius, ties)
    /\ prev' = out
    /\ passes' = passes + 1
    /\ UNCHANGED <<dataset, points, radius, cacheVars>>

SmoothAod ==
    /\ dataset = "aod"
    /\ MayRun
    /\ LET avgs == AodAverages(points)      \* smooth_aod_points(points, draws)
       IN  \E draws \in JitterDraws(avgs) : out' = AodEmit(avgs, draws)
    /\ prev' = out
    /\ passes' = passes + 1
    /\ UNCHANGED <<dataset, points, radius, clusters, cacheVars>>

NextSmooth == SmoothAqi \/ SmoothAod

SpecSmooth == InitSmooth /\ [][NextSmooth]_vars

-----------------------------------------------------------------------------
(* FreshnessCache: fetch_aqi.fetch_aqi_data, fetch_aod.fetch_aod_data and
   predict_aqi.fetch_aqi_data over the files aqi_data.json and aod_data.json *)

AQI_FILE == "aqi"       \* Path("aqi_data.json"), in fetch_aqi.py and in predict_aqi.py
AOD_FILE == "aod"       \* Path("aod_data.json")

FETCH_AQI == "fetch_aqi.fetch_aqi_data"
FETCH_AOD == "fetch_aod.fetch_aod_data"
PREDICT_FETCH_AQI == "predict_aqi.fetch_aqi_data"

\* json.dump(data, f): the file holds a JSON document
json_dump(data) == [ok |-> TRUE, doc |-> data]

\* what open(CACHE_FILE, "w") leaves before json.dump has run: no JSON document
Truncated == [ok |-> FALSE, doc |-> <<>>]

\* json.load(open(CACHE_FILE)) raises JSONDecodeError unless the file holds a document
json_load_raises(content) == ~content.ok
json_load(content) == content.doc

\* CACHE_FILE.exists() and age <= 2
IsFreshInclusive(k) ==
    files[k].exists /\ (now - files[k].mtime) <= TTL_HOURS

\* CACHE_FILE.exists() and age < 2, age = (now - mtime) / 3600 hours
IsFresh(k) ==
    files[k].exists /\ (now - files[k].mtime) < TTL_HOURS

\* a record appended by predict_aqi.fetch_station: no "city"
PredictStation(lon, aqi) ==
    [lat |-> LAT_START, lon |-> lon, aqi |-> aqi,
     category |-> CategoryName(aqi), time |-> "2025-10-04"]

\* fetch_all_aqi(): every fetch_station that fails (network error, non-200
\* status) contributes []; `failed` marks the run in which all of them failed
AqiFetched ==
    {[failed |-> TRUE, data |-> <<>>],
     [failed |-> FALSE, data |-> <<Station(-125, 50)>>],
     [failed |-> FALSE, data |-> <<Station(-125, 50), Station(-124, 54)>>]}

PredictFetched ==
    {[failed |-> TRUE, data |-> <<>>],
     [failed |-> FALSE, data |-> <<PredictStation(-125, 50)>>],
     [failed |-> FALSE, data |-> <<PredictStation(-125, 50), PredictStation(-124, 54)>>]}

\* fetch_aod_granules(): [] when login() returns None or search_data raises,
\* else the generated points
AodFetched ==
    {[failed |-> TRUE, data |-> <<>>],
     [failed |-> FALSE, data |-> <<Granule(-124, 151)>>]}

\* data = smooth_aqi_points(asyncio.run(fetch_all_aqi()))
AqiComputed ==
    UNION {{[failed |-> f.failed,
             data |-> smooth_aqi_points(f.data, DEFAULT_RADIUS_KM, ties)] :
                ties \in TieSides(AqiAverages(f.data))} : f \in AqiFetched}

\* smoothed = smooth_aod_points(fetch_aod_granules())
AodComputed ==
    UNION {{[failed |-> f.failed, data |-> smooth_aod_points(f.data, draws)] :
                draws \in JitterDraws(AodAverages(f.data))} : f \in AodFetched}

Step(op, hit, computes, failed, raised, ret) ==
    [op |-> op, hit |-> hit, computes |-> computes, failed |-> failed,
     raised |-> raised, ret |-> ret]

\* the body shared by the three cached fetchers: `computed` is the set of
\* results the fetch (and smoothing) can produce in this call
CachedFetch(op, k, computed) ==
    IF IsFresh(k)
    THEN /\ UNCHANGED files
         /\ last' = IF json_load_raises(files[k].content)
                    THEN Step(op, FALSE, 0, FALSE, TRUE, <<>>)
                    ELSE Step(op, TRUE, 0, FALSE, FALSE, json_load(files[k].content))
    ELSE \E c \in computed :
            /\ files' = [files EXCEPT ![k] =
                            [exists |-> TRUE, mtime |-> now, content |-> json_dump(c.data)]]
            /\ last' = Step(op, FALSE, 1, c.failed, FALSE, c.data)

FetchAqiData ==
    /\ CachedFetch(FETCH_AQI, AQI_FILE, AqiComputed)
    /\ UNCHANGED <<now, smoothVars>>

FetchAodData ==
    /\ CachedFetch(FETCH_AOD, AOD_FILE, AodComputed)
    /\ UNCHANGED <<now, smoothVars>>

\* no smoothing: the fetched station records are written as they are
PredictFetchAqiData ==
    /\ CachedFetch(PREDICT_FETCH_AQI, AQI_FILE, PredictFetched)
    /\ UNCHANGED <<now, smoothVars>>

\* an hour passes
Tick ==
    /\ now < MaxClock
    /\ now' = now + 1
    /\ last' = Step("tick", FALSE, 0, FALSE, FALSE, <<>>)
    /\ UNCHANGED <<files, smoothVars>>

\* a writer stopped between open(CACHE_FILE, "w") and the end of json.dump:
\* the file exists, is new, and holds no JSON document
InterruptedWrite ==
    /\ \E k \in {AQI_FILE, AOD_FILE} :
        /\ ~IsFresh(k)
        /\ files' = [files EXCEPT ![k] =
                        [exists |-> TRUE, mtime |-> now, content |-> Truncated]]
    /\ last' = Step("interrupted", FALSE, 0, FALSE, TRUE, <<>>)
    /\ UNCHANGED <<now, smoothVars>>

InitCache ==
    /\ dataset = "none"
    /\ points = <<>>
    /\ radius = DEFAULT_RADIUS_KM
    /\ passes = 0
    /\ clusters = <<>>
    /\ out = <<>>
    /\ prev = <<>>
    /\ IdleCache

NextCache == FetchAqiData \/ FetchAodData \/ PredictFetchAqiData \/ Tick

SpecCache == InitCache /\ [][NextCache]_vars

NextCacheIO == NextCache \/ InterruptedWrite

SpecCacheIO == InitCache /\ [][NextCacheIO]_vars

-----------------------------------------------------------------------------
(* Properties of the smoothers *)

AqiDone == dataset = "aqi" /\ passes >= 1

\* the clusters holding input observation i
ClustersOf(i) == {c \in 1..Len(clusters) : i \in RangeOf(clusters[c])}

ClusterSizes == [c \in 1..Len(clusters) |-> Len(clusters[c])]

\* C1: clustering is a partition: every input observation is a member of
\* exactly one emitted cluster, and the cluster sizes sum to the input length.
C1_Partition ==
    AqiDone =>
        /\ \A i \in 1..Len(points) : Cardinality(ClustersOf(i)) = 1
        /\ SumSeq(ClusterSizes) = Len(points)

\* C10: clustering loses no observation: every input observation is a member
\* of at least one emitted cluster, and a non-empty input gives between 1 and
\* Len(points) clusters.
C10_NoObservationLost ==
    AqiDone =>
        /\ \A i \in 1..Len(points) : ClustersOf(i) # {}
        /\ points # <<>> => (1 <= Len(clusters) /\ Len(clusters) <= Len(points))

\* three observations, the middle one within the radius of both others
C10_Witness ==
    AqiDone /\ Len(points) = 3 /\ clusters = <<(<<1, 2>>), (<<3, 2>>)>>

MemberSum(c, f) == SumSeq(Field(points, clusters[c], f))

CentroidAndCategory(c) ==
    LET n == Len(clusters[c])
    IN  /\ out[c].lat.den > 0 /\ out[c].lon.den > 0
        /\ out[c].lat.num * n = out[c].lat.den * MemberSum(c, "lat")
        /\ out[c].lon.num * n = out[c].lon.den * MemberSum(c, "lon")
        /\ out[c].category = IF n > 1 THEN "Interpolated"
                             ELSE points[clusters[c][1]].category

\* C5 as stated: every representative's value equals the mean of its members'
\* values, its location is their centroid, and its category is "Interpolated"
\* for more than one member and the sole member's category otherwise.
C5_ExactMean ==
    AqiDone =>
        \A c \in 1..Len(clusters) :
            /\ out[c].aqi * Len(clusters[c]) = MemberSum(c, "aqi")
            /\ CentroidAndCategory(c)

\* C5 amended: every representative's value is the mean of its members' values
\* rounded to the nearest integer, a tie going to the even integer; location
\* and category are as stated.
C5_RoundedMean ==
    AqiDone =>
        \A c \in 1..Len(clusters) :
            LET n == Len(clusters[c])
                e == Abs(out[c].aqi * n - MemberSum(c, "aqi"))
            IN  /\ 2 * e <= n
                /\ (2 * e = n) => (out[c].aqi % 2 = 0)
                /\ CentroidAndCategory(c)

\* two observations with values 50 and 54 merged into one representative of
\* value 52 and category "Interpolated"
C5_Witness ==
    /\ AqiDone
    /\ \E c \in 1..Len(clusters) :
        /\ Len(clusters[c]) = 2
        /\ {points[i].aqi : i \in RangeOf(clusters[c])} = {50, 54}
        /\ out[c].aqi = 52
        /\ out[c].category = "Interpolated"

\* C6: on an empty observation sequence both smoothers return an empty
\* result: no cluster and no grid cell.
C6_EmptyInEmptyOut ==
    (passes >= 1 /\ points = <<>>) => (out = <<>> /\ clusters = <<>>)

C6_Witness ==
    passes >= 1 /\ points = <<>> /\ out = <<>>

\* the grid cells of `out`, and the lattice they were emitted for
Cells == IF dataset = "aqi" THEN SubSeq(out, Len(clusters) + 1, Len(out)) ELSE out
LatticeOf == IF dataset = "aqi" THEN AqiLattice ELSE AodLattice
ValueOf(rec) == IF dataset = "aqi" THEN rec.aqi ELSE rec.aod

\* i is strictly before j in the order of distance to (lat, lon), input order
\* deciding between equal distances
Before(lat, lon, i, j) ==
    \/ DistTo(points, lat, lon, i) < DistTo(points, lat, lon, j)
    \/ DistTo(points, lat, lon, i) = DistTo(points, lat, lon, j) /\ i < j

\* the at most K nearest input points of (lat, lon): fewer than K come before
Neighbours(lat, lon) ==
    {i \in 1..Len(points) :
        Cardinality({j \in 1..Len(points) : Before(lat, lon, j, i)}) < K}

NeighbourValues(lat, lon) == {ValueOf(points[i]) : i \in Neighbours(lat, lon)}

\* C7: every emitted grid cell's value lies within [min, max] of the values
\* of the at most 5 nearest input points, for every non-empty input.
C7_CellWithinNeighbours ==
    (passes >= 1 /\ points # <<>>) =>
        /\ Len(Cells) = Len(LatticeOf)
        /\ \A c \in 1..Len(Cells) :
            LET vs == NeighbourValues(LatticeOf[c][1], LatticeOf[c][2])
            IN  Min(vs) <= ValueOf(Cells[c]) /\ ValueOf(Cells[c]) <= Max(vs)

\* more than K input points, and a cell whose neighbours differ in value
C7_Witness ==
    /\ passes >= 1
    /\ Len(points) > K
    /\ \E c \in 1..Len(Cells) :
        LET vs == NeighbourValues(LatticeOf[c][1], LatticeOf[c][2])
        IN  Min(vs) < Max(vs) /\ Cardinality(Neighbours(LatticeOf[c][1], LatticeOf[c][2])) = K

Locations(s) == [c \in 1..Len(s) |-> <<s[c].lat, s[c].lon>>]

PrevCells == IF dataset = "aqi" THEN SubSeq(prev, Len(clusters) + 1, Len(prev)) ELSE prev

\* C8 as stated: two passes over the same input points emit grid cells at
\* identical locations, in smooth_aqi_points and in smooth_aod_points.
C8_SameLocations ==
    passes = 2 => Locations(Cells) = Locations(PrevCells)

\* a rational within 0.3 of the integer x
Within03(q, x) == q.den > 0 /\ 10 * Abs(q.num - x * q.den) <= 3 * q.den

\* C8 amended: smooth_aqi_points emits its cells at the lattice coordinates
\* plus 0.5 degrees, fixed by the ranges and the spacing; smooth_aod_points
\* emits one cell per lattice coordinate, in lattice order, each within 0.3
\* degrees of its coordinate in latitude and in longitude.
C8_LatticeLocations ==
    (passes >= 1 /\ points # <<>>) =>
        /\ Len(Cells) = Len(LatticeOf)
        /\ \A c \in 1..Len(Cells) :
            IF dataset = "aqi"
            THEN /\ Cells[c].lat = [num |-> 2 * LatticeOf[c][1] + 1, den |-> 2]
                 /\ Cells[c].lon = [num |-> 2 * LatticeOf[c][2] + 1, den |-> 2]
            ELSE /\ Within03(Cells[c].lat, LatticeOf[c][1])
                 /\ Within03(Cells[c].lon, LatticeOf[c][2])

\* two AOD passes over the same input that placed their cells differently
C8_Witness ==
    /\ dataset = "aod"
    /\ passes = 2
    /\ points # <<>>
    /\ Locations(out) # Locations(prev)

-----------------------------------------------------------------------------
(* Properties of the cached fetchers *)

\* the file a cached fetcher reads and writes
FileOf(op) == IF op = FETCH_AOD THEN AOD_FILE ELSE AQI_FILE

\* the entry of file k is younger than the TTL in the current state
YoungerThanTTL(k) == files[k].exists /\ now - files[k].mtime < TTL_HOURS

\* C2: a call of fetch_aqi_data / fetch_aod_data made while the entry's age is
\* below the TTL returns the persisted payload without computing and leaves
\* the files alone; a call made with no entry, or with one at or past the
\* TTL, computes exactly once, replaces the entry by the result with the
\* write time now, and returns that result.
C2_FreshHitElseRecompute ==
    [][\A op \in {FETCH_AQI, FETCH_AOD} :
        (last'.op = op) =>
            LET k == FileOf(op)
            IN  IF YoungerThanTTL(k)
                THEN /\ last'.computes = 0
                     /\ ~last'.raised
                     /\ last'.ret = files[k].content.doc
                     /\ files' = files
                ELSE /\ last'.computes = 1
                     /\ ~last'.raised
                     /\ files'[k] = [exists |-> TRUE, mtime |-> now,
                                     content |-> [ok |-> TRUE, doc |-> last'.ret]]
                     /\ \A j \in DOMAIN files : j # k => files'[j] = files[j]]_vars

\* a call that returned a non-empty persisted payload an hour after it was
\* written, without computing
C2_Witness ==
    /\ last.op \in {FETCH_AQI, FETCH_AOD}
    /\ last.hit
    /\ last.computes = 0
    /\ last.ret # <<>>
    /\ last.ret = files[FileOf(last.op)].content.doc
    /\ now = files[FileOf(last.op)].mtime + 1

\* C3: when the entry is stale and the recomputation's fetch fails, the
\* persisted payload after the call equals the persisted payload before it.
C3_StaleEntryKeptOnFailure ==
    [][\A op \in {FETCH_AQI, FETCH_AOD} :
        (/\ last'.op = op
         /\ files[FileOf(op)].exists
         /\ ~YoungerThanTTL(FileOf(op))
         /\ last'.failed)
        => files'[FileOf(op)].content = files[FileOf(op)].content]_vars

\* C4: an entry that holds no readable document is treated as no entry: the
\* call does not fail, recomputes, overwrites the entry and returns the
\* recomputed result, also when the entry's age is below the TTL.
C4_CorruptEntryRecomputed ==
    [][\A op \in {FETCH_AQI, FETCH_AOD} :
        (/\ last'.op = op
         /\ files[FileOf(op)].exists
         /\ ~files[FileOf(op)].content.ok)
        => /\ ~last'.raised
           /\ last'.computes = 1
           /\ files'[FileOf(op)].content = [ok |-> TRUE, doc |-> last'.ret]]_vars

\* a record of RepresentativePoint / GridCell shape: {lat, lon, aqi, category}
IsSmoothedRecord(rec) == DOMAIN rec = {"lat", "lon", "aqi", "category"}

IsSmoothedPayload(doc) == \A i \in 1..Len(doc) : IsSmoothedRecord(doc[i])

\* C9: every entry persisted in aqi_data.json is a sequence of
\* RepresentativePoint / GridCell records, and a fresh hit of
\* fetch_aqi.fetch_aqi_data never returns raw station records.
C9_AqiEntryAlwaysSmoothed ==
    /\ files[AQI_FILE].exists => IsSmoothedPayload(files[AQI_FILE].content.doc)
    /\ (last.op = FETCH_AQI /\ last.hit) => IsSmoothedPayload(last.ret)

====
